---- MODULE Spec2Model ----
(***************************************************************************)
(* A model of okcoin.js: the OKCoin REST client.  A client is built by the *)
(* OKCoin constructor, its endpoint methods build a parameter object, sign *)
(* it (private endpoints) and hand it to the HTTP transport; the transport *)
(* later runs the response handler, which classifies the response and      *)
(* calls the completion callback.                                          *)
(*                                                                         *)
(* JavaScript values are records whose single field names their type, so   *)
(* that values of different types can be compared:                         *)
(*   [undefined |-> TRUE], [null |-> TRUE], [num |-> 3], [str |-> "x"],     *)
(*   [bool |-> TRUE], [arr |-> <<..>>], [obj |-> <<<<key, value>>, ..>>],    *)
(*   [hex |-> "lower"|"upper", of |-> s]  (the hex digest of the string s) *)
(* An object keeps its own enumerable properties in insertion order, the   *)
(* order a for-in loop visits them (no key of this program is an index).   *)
(***************************************************************************)
EXTENDS Naturals, Sequences, FiniteSets, TLC

VARIABLES
    heap,       \* the settings/config objects: heap[o] is the object o
    clients,    \* the constructed clients: constructor arguments and config reference
    inflight,   \* the requests handed to the transport and not yet completed
    delivered,  \* the latest run of a response handler: its input and what it did
    obj,        \* a parameter object under construction (canonicalizer)
    formatted   \* the latest result of stringifyToOKCoinFormat, with its input

vars == <<heap, clients, inflight, delivered, obj, formatted>>

(***************************************************************************)
(* Bounds of the model.                                                    *)
(***************************************************************************)
MaxClients == 2
MaxSettings == 1
MaxInFlight == 2
MaxParams == 3

(***************************************************************************)
(* JavaScript values.                                                      *)
(***************************************************************************)
Undefined == [undefined |-> TRUE]
Null == [null |-> TRUE]
Num(n) == [num |-> n]
Str(s) == [str |-> s]
Arr(a) == [arr |-> a]
Obj(pairs) == [obj |-> pairs]

IsNum(v) == DOMAIN v = {"num"}
IsStr(v) == DOMAIN v = {"str"}
IsBool(v) == DOMAIN v = {"bool"}
IsArr(v) == DOMAIN v = {"arr"}
IsObj(v) == DOMAIN v = {"obj"}
IsDigest(v) == DOMAIN v = {"hex", "of"}

\* ToBoolean: what `if (v)` and `v || w` test.
Truthy(v) ==
    CASE v = Undefined -> FALSE
      [] v = Null -> FALSE
      [] IsNum(v) -> v.num # 0
      [] IsStr(v) -> v.str # ""
      [] IsBool(v) -> v.bool
      [] OTHER -> TRUE

RECURSIVE JoinStrings(_, _)
JoinStrings(strs, sep) ==
    IF strs = <<>> THEN ""
    ELSE IF Len(strs) = 1 THEN strs[1]
    ELSE strs[1] \o sep \o JoinStrings(Tail(strs), sep)

\* ToString: what `'' + v` appends (numbers of the model are naturals).
RECURSIVE ToStr(_)
ToStr(v) ==
    CASE v = Undefined -> "undefined"
      [] v = Null -> "null"
      [] IsNum(v) -> ToString(v.num)
      [] IsStr(v) -> v.str
      [] IsBool(v) -> IF v.bool THEN "true" ELSE "false"
      [] IsArr(v) ->
            JoinStrings([i \in 1..Len(v.arr) |->
                            IF v.arr[i] \in {Undefined, Null} THEN ""
                            ELSE ToStr(v.arr[i])], ",")
      [] IsDigest(v) ->
            IF v.hex = "upper" THEN "MD5(" \o v.of \o ")" ELSE "md5(" \o v.of \o ")"
      [] OTHER -> "[object Object]"

\* Own properties of an object value.
Keys(o) == [i \in 1..Len(o.obj) |-> o.obj[i][1]]
HasOwn(o, k) == \E i \in 1..Len(o.obj) : o.obj[i][1] = k
Get(o, k) ==
    IF HasOwn(o, k)
    THEN o.obj[CHOOSE i \in 1..Len(o.obj) : o.obj[i][1] = k][2]
    ELSE Undefined
\* o[k] = v: overwrite in place, or append a new property.
Put(o, k, v) ==
    IF HasOwn(o, k)
    THEN Obj([i \in 1..Len(o.obj) |->
                 IF o.obj[i][1] = k THEN <<k, v>> ELSE o.obj[i]])
    ELSE Obj(Append(o.obj, <<k, v>>))

(***************************************************************************)
(* The canonicalizer.                                                      *)
(***************************************************************************)
\* The UTF-16 code units of the property names the model uses.
Codes(k) ==
    CASE k = "amount" -> <<97, 109, 111, 117, 110, 116>>
      [] k = "api_key" -> <<97, 112, 105, 95, 107, 101, 121>>
      [] k = "current_page" -> <<99, 117, 114, 114, 101, 110, 116, 95, 112, 97, 103, 101>>
      [] k = "order_id" -> <<111, 114, 100, 101, 114, 95, 105, 100>>
      [] k = "page_length" -> <<112, 97, 103, 101, 95, 108, 101, 110, 103, 116, 104>>
      [] k = "price" -> <<112, 114, 105, 99, 101>>
      [] k = "sign" -> <<115, 105, 103, 110>>
      [] k = "status" -> <<115, 116, 97, 116, 117, 115>>
      [] k = "symbol" -> <<115, 121, 109, 98, 111, 108>>
      [] k = "type" -> <<116, 121, 112, 101>>
      [] k = "Type" -> <<84, 121, 112, 101>>
      [] k = "pri" -> <<112, 114, 105>>

\* The default comparison of Array.prototype.sort: code unit by code unit,
\* a proper prefix before the longer string.
RECURSIVE CodesLess(_, _)
CodesLess(a, b) ==
    IF b = <<>> THEN FALSE
    ELSE IF a = <<>> THEN TRUE
    ELSE IF a[1] # b[1] THEN a[1] < b[1]
    ELSE CodesLess(Tail(a), Tail(b))

StringLess(a, b) == CodesLess(Codes(a), Codes(b))

\* Insert k into the ascending sequence s.
RECURSIVE SortedInsert(_, _)
SortedInsert(s, k) ==
    IF s = <<>> THEN <<k>>
    ELSE IF StringLess(k, s[1]) THEN <<k>> \o s
    ELSE <<s[1]>> \o SortedInsert(Tail(s), k)

\* Mutant of ArraySort: the keys stay in insertion order.
ArraySort_Unsorted(arr) == arr

\* arr.sort()
RECURSIVE ArraySort(_)
ArraySort(arr) ==
    IF arr = <<>> THEN <<>>
    ELSE SortedInsert(ArraySort(SubSeq(arr, 1, Len(arr) - 1)), arr[Len(arr)])

\* The second loop of stringifyToOKCoinFormat, from index i (1-based) on.
RECURSIVE FormatFrom(_, _, _)
FormatFrom(o, arr, i) ==
    IF i > Len(arr) THEN ""
    ELSE (IF i # 1 THEN "&" ELSE "")
            \o arr[i] \o "=" \o ToStr(Get(o, arr[i]))
            \o FormatFrom(o, arr, i + 1)

stringifyToOKCoinFormat(o) == FormatFrom(o, ArraySort(Keys(o)), 1)

(***************************************************************************)
(* The canonicalizer applied to parameter objects built key by key.        *)
(***************************************************************************)
CanonKeys == {"symbol", "sign", "price", "pri", "Type", "type"}
CanonValues == {Num(100), Str("btc_cny"), Null}

NotFormatted == [input |-> Obj(<<>>), out |-> "", done |-> FALSE]

\* params[k] = v on a parameter object.  The string an earlier call returned
\* was a local of that call and is gone.
SetParam(k, v) ==
    /\ HasOwn(obj, k) \/ Len(obj.obj) < MaxParams
    /\ obj' = Put(obj, k, v)
    /\ formatted' = NotFormatted
    /\ UNCHANGED <<heap, clients, inflight, delivered>>

\* A call of stringifyToOKCoinFormat on the object.
Stringify ==
    /\ formatted' = [input |-> obj, out |-> stringifyToOKCoinFormat(obj), done |-> TRUE]
    /\ UNCHANGED <<heap, clients, inflight, delivered, obj>>

\* var params = {}
NewParams ==
    /\ obj # Obj(<<>>)
    /\ obj' = Obj(<<>>)
    /\ formatted' = NotFormatted
    /\ UNCHANGED <<heap, clients, inflight, delivered>>

\* What the handler did: the calls of callback it made, in order, whether it
\* reached JSON.parse, and whether an exception left it.
Did(calls, parsed, threw) == [calls |-> calls, parsed |-> parsed, threw |-> threw]
Callback(err, data) == [err |-> err, data |-> data]

\* No handler is running or has just run: once a handler has returned and
\* the program goes on, what it was given and did is gone.
NoDelivery ==
    [ran |-> FALSE, call |-> Null, pos |-> 0, error |-> Null, body |-> Undefined,
     did |-> Did(<<>>, FALSE, FALSE)]

(***************************************************************************)
(* The client: construction.                                               *)
(***************************************************************************)
DefaultUrl == "https://www.okcoin.cn/api"
DefaultVersion == "v1"

\* {}: an object with none of the properties the constructor reads.
EmptyProps ==
    [url |-> Undefined, version |-> Undefined, api_key |-> Undefined, secret |-> Undefined]

\* _.defaults(object, source): sets each property of source that is
\* undefined on object, on object itself, and returns object.
Defaults(object, source) ==
    [f \in DOMAIN source |-> IF object[f] = Undefined THEN source[f] ELSE object[f]]

\* The caller creates an object to pass as the constructor's settings.
NewSettings(props) ==
    /\ Cardinality({o \in 1..Len(heap) : heap[o].owner = "caller"}) < MaxSettings
    /\ heap' = Append(heap, [owner |-> "caller", props |-> props])
    /\ delivered' = NoDelivery
    /\ UNCHANGED <<clients, inflight, obj, formatted>>

\* The caller writes a property of a settings object it holds, after it has
\* constructed a client with it.
SetSetting(o, f, v) ==
    /\ o \in 1..Len(heap)
    /\ heap[o].owner = "caller"
    /\ \E c \in 1..Len(clients) : clients[c].config = o
    /\ heap[o].props[f] # v
    /\ heap' = [heap EXCEPT ![o].props[f] = v]
    /\ delivered' = NoDelivery
    /\ UNCHANGED <<clients, inflight, obj, formatted>>

\* new OKCoin(api_key, secret, settings); settings = 0 stands for no settings
\* argument, otherwise it is the heap object passed.  config is the object
\* _.defaults returns: the settings object itself, or the fresh {}.
OKCoin(api_key, secret, settings) ==
    /\ Len(clients) < MaxClients
    /\ settings = 0 \/ (settings \in 1..Len(heap) /\ heap[settings].owner = "caller")
    /\ LET fresh == settings = 0
           target == IF fresh THEN Len(heap) + 1 ELSE settings
           object == IF fresh THEN EmptyProps ELSE heap[settings].props
           config == Defaults(object, [url |-> Str(DefaultUrl),
                                       version |-> Str(DefaultVersion),
                                       api_key |-> api_key,
                                       secret |-> secret])
       IN /\ heap' = IF fresh
                     THEN Append(heap, [owner |-> "client", props |-> config])
                     ELSE [heap EXCEPT ![settings].props = config]
          /\ clients' = Append(clients, [api_key |-> api_key, secret |-> secret,
                                         config |-> target])
    /\ delivered' = NoDelivery
    /\ UNCHANGED <<inflight, obj, formatted>>

\* The config object of client c, as it is now.
Config(c) == heap[clients[c].config].props

(***************************************************************************)
(* The signer and the request builder.                                     *)
(***************************************************************************)
\* The digest primitive: the lowercase hex digest of s, kept symbolic (two
\* digests are equal exactly when their inputs are).
md5(s) == [hex |-> "lower", of |-> s]
toUpperCase(d) == [hex |-> "upper", of |-> d.of]

getMessageSignature(c, params) ==
    toUpperCase(md5(stringifyToOKCoinFormat(params) \o "&secret_key="
                        \o ToStr(Config(c).secret)))

\* The request handed to the transport; its handler closes over callback.
okcoinRequest(url, requestType, params, callback) ==
    [url |-> url, method |-> requestType, form |-> params, callback |-> callback]

publicMethod(c, path, callback) ==
    okcoinRequest(ToStr(Config(c).url) \o path, "GET", Null, callback)

\* Mutant of privateMethod: the signature is computed before api_key is set.
privateMethod_SignBeforeKey(c, path, params, callback) ==
    LET sign == getMessageSignature(c, params)
        withKey == Put(params, "api_key", Config(c).api_key)
        signed == Put(withKey, "sign", sign)
    IN okcoinRequest(ToStr(Config(c).url) \o path, "POST", signed, callback)

privateMethod(c, path, params, callback) ==
    LET withKey == Put(params, "api_key", Config(c).api_key)
        signed == Put(withKey, "sign", getMessageSignature(c, withKey))
    IN okcoinRequest(ToStr(Config(c).url) \o path, "POST", signed, callback)

Path(c, name) == "/" \o ToStr(Config(c).version) \o "/" \o name \o ".do"

ticker(c, callback) == publicMethod(c, Path(c, "ticker"), callback)
depth(c, callback) == publicMethod(c, Path(c, "depth"), callback)
trades(c, callback) == publicMethod(c, Path(c, "trades"), callback)

userinfo(c, callback) == privateMethod(c, Path(c, "userinfo"), Obj(<<>>), callback)

\* Mutant of trade: amount is set whatever its value.
trade_AlwaysAmount(c, symbol, type, price, amount, callback) ==
    LET p1 == Put(Obj(<<>>), "amount", amount)
        p2 == IF Truthy(price) THEN Put(p1, "price", price) ELSE p1
        p3 == Put(p2, "symbol", symbol)
        p4 == Put(p3, "type", type)
    IN privateMethod(c, Path(c, "trade"), p4, callback)

trade(c, symbol, type, price, amount, callback) ==
    LET p0 == Obj(<<>>)
        p1 == IF Truthy(amount) THEN Put(p0, "amount", amount) ELSE p0
        p2 == IF Truthy(price) THEN Put(p1, "price", price) ELSE p1
        p3 == Put(p2, "symbol", symbol)
        p4 == Put(p3, "type", type)
    IN privateMethod(c, Path(c, "trade"), p4, callback)

cancel_order(c, order_id, symbol, callback) ==
    privateMethod(c, Path(c, "cancel_order"),
                  Obj(<< <<"order_id", order_id>>, <<"symbol", symbol>> >>), callback)

order_info(c, order_id, symbol, callback) ==
    privateMethod(c, Path(c, "order_info"),
                  Obj(<< <<"order_id", order_id>>, <<"symbol", symbol>> >>), callback)

\* Array.prototype.join(",")
ArrayJoin(a) == Str(ToStr(a))

orders_info(c, orders_id, symbol, callback) ==
    LET joined == IF IsArr(orders_id) THEN ArrayJoin(orders_id) ELSE orders_id
    IN privateMethod(c, Path(c, "orders_info"),
                     Obj(<< <<"order_id", joined>>, <<"symbol", symbol>> >>), callback)

order_history(c, symbol, status, page, pagesize, callback) ==
    privateMethod(c, Path(c, "order_history"),
                  Obj(<< <<"current_page", page>>, <<"symbol", symbol>>,
                         <<"status", status>>, <<"page_length", pagesize>> >>),
                  callback)

\* Mutant of Issue: one parameter object per client, shared by its calls.
Issue_SharedParams(c, endpoint, args, req) ==
    /\ c \in 1..Len(clients)
    /\ Len(inflight) < MaxInFlight
    /\ inflight' = Append([j \in 1..Len(inflight) |->
                              IF inflight[j].client = c /\ req.form # Null
                                    /\ inflight[j].req.form # Null
                              THEN [inflight[j] EXCEPT !.req.form = req.form]
                              ELSE inflight[j]],
                          [client |-> c, endpoint |-> endpoint,
                           args |-> args, req |-> req])
    /\ delivered' = NoDelivery
    /\ UNCHANGED <<heap, clients, obj, formatted>>

\* An endpoint method of client c is called: the request it builds is in
\* flight.  endpoint and args record the call made, for the properties.
Issue(c, endpoint, args, req) ==
    /\ c \in 1..Len(clients)
    /\ Len(inflight) < MaxInFlight
    /\ inflight' = Append(inflight, [client |-> c, endpoint |-> endpoint,
                                     args |-> args, req |-> req])
    /\ delivered' = NoDelivery
    /\ UNCHANGED <<heap, clients, obj, formatted>>

Ticker(c, callback) == Issue(c, "ticker", <<>>, ticker(c, callback))
Depth(c, callback) == Issue(c, "depth", <<>>, depth(c, callback))
Trades(c, callback) == Issue(c, "trades", <<>>, trades(c, callback))
Userinfo(c, callback) == Issue(c, "userinfo", <<>>, userinfo(c, callback))
Trade(c, symbol, type, price, amount, callback) ==
    Issue(c, "trade", <<symbol, type, price, amount>>,
          trade(c, symbol, type, price, amount, callback))
CancelOrder(c, order_id, symbol, callback) ==
    Issue(c, "cancel_order", <<order_id, symbol>>,
          cancel_order(c, order_id, symbol, callback))
OrderInfo(c, order_id, symbol, callback) ==
    Issue(c, "order_info", <<order_id, symbol>>,
          order_info(c, order_id, symbol, callback))
OrdersInfo(c, orders_id, symbol, callback) ==
    Issue(c, "orders_info", <<orders_id, symbol>>,
          orders_info(c, orders_id, symbol, callback))
OrderHistory(c, symbol, status, page, pagesize, callback) ==
    Issue(c, "order_history", <<symbol, status, page, pagesize>>,
          order_history(c, symbol, status, page, pagesize, callback))

(***************************************************************************)
(* The response classifier.                                                *)
(***************************************************************************)
error_codes == <<
    <<"10000", "Required parameter can not be null">>,
    <<"10001", "Requests are too frequent">>,
    <<"10002", "System Error">>,
    <<"10003", "Restricted list request, please try again later">>,
    <<"10004", "IP restriction">>,
    <<"10005", "Key does not exist">>,
    <<"10006", "User does not exist">>,
    <<"10007", "Signatures do not match">>,
    <<"10008", "Illegal parameter">>,
    <<"10009", "Order does not exist">>,
    <<"10010", "Insufficient balance">>,
    <<"10011", "Order is less than minimum trade amount">>,
    <<"10012", "Unsupported symbol (not btc_cny or ltc_cny)">>,
    <<"10013", "This interface only accepts https requests">>,
    <<"10014", "Order price must be between 0 and 1,000,000">>,
    <<"10015", "Order price differs from current market price too much">>,
    <<"10016", "Insufficient coins balance">>,
    <<"10017", "API authorization error">>,
    <<"10026", "Loan (including reserved loan) and margin cannot be withdrawn">>,
    <<"10027", "Cannot withdraw within 24 hrs of authentication information modification">>,
    <<"10028", "Withdrawal amount exceeds daily limit">>,
    <<"10029", "Account has unpaid loan, please cancel/pay off the loan before withdraw">>,
    <<"10031", "Deposits can only be withdrawn after 6 confirmations">>,
    <<"10032", "Please enabled phone/google authenticator">>,
    <<"10033", "Fee higher than maximum network transaction fee">>,
    <<"10034", "Fee lower than minimum network transaction fee">>,
    <<"10035", "Insufficient BTC/LTC">>,
    <<"10036", "Withdrawal amount too low">>,
    <<"10037", "Trade password not set">>,
    <<"10040", "Withdrawal cancellation fails">>,
    <<"10041", "Withdrawal address not approved">>,
    <<"10042", "Admin password error">>,
    <<"10100", "User account frozen">>,
    <<"10216", "Non-available API">>,
    <<"503", "Too many requests (Http)">> >>

\* error_codes[error_code]: the property named by the string of error_code.
ErrorCodesAt(error_code) ==
    LET key == ToStr(error_code)
        hits == {i \in 1..Len(error_codes) : error_codes[i][1] = key}
    IN IF hits = {} THEN Undefined ELSE Str(error_codes[CHOOSE i \in hits : TRUE][2])

\* msg is computed and not used.
error_code_meaning(error_code) ==
    LET msg == IF Truthy(ErrorCodesAt(error_code))
               THEN ErrorCodesAt(error_code)
               ELSE Str("OKCoin error code :" \o ToStr(error_code)
                            \o " is not yet supported by the API")
    IN [code |-> error_code, error |-> ErrorCodesAt(error_code)]

\* new Error(message)
Error(message) == [name |-> "Error", message |-> message]

\* JSON.stringify of the values a transport failure carries.
RECURSIVE JSON_stringify(_)
JSON_stringify(v) ==
    CASE IsNum(v) -> ToString(v.num)
      [] IsStr(v) -> "\"" \o v.str \o "\""
      [] IsObj(v) ->
            "{" \o JoinStrings([i \in 1..Len(v.obj) |->
                                   "\"" \o v.obj[i][1] \o "\":"
                                       \o JSON_stringify(v.obj[i][2])], ",") \o "}"
      [] OTHER -> "null"

\* JSON.parse on the response bodies of the model: the value parsed, or
\* ok = FALSE where JSON.parse throws a SyntaxError.
Parsed(v) == [ok |-> TRUE, value |-> v]
JSON_parse(body) ==
    CASE body = Str("null") -> Parsed(Null)
      [] body = Str("5") -> Parsed(Num(5))
      [] body = Str("\"ok\"") -> Parsed(Str("ok"))
      [] body = Str("[]") -> Parsed(Arr(<<>>))
      [] body = Str("{}") -> Parsed(Obj(<<>>))
      [] body = Str("{\"result\":true}") ->
            Parsed(Obj(<< <<"result", [bool |-> TRUE]>> >>))
      [] body = Str("{\"error_code\":0}") ->
            Parsed(Obj(<< <<"error_code", Num(0)>> >>))
      [] body = Str("{\"error_code\":\"\"}") ->
            Parsed(Obj(<< <<"error_code", Str("")>> >>))
      [] body = Str("{\"error_code\":10007}") ->
            Parsed(Obj(<< <<"error_code", Num(10007)>> >>))
      [] body = Str("{\"error_code\":\"10007\"}") ->
            Parsed(Obj(<< <<"error_code", Str("10007")>> >>))
      [] body = Str("{\"result\":false,\"error_code\":503}") ->
            Parsed(Obj(<< <<"result", [bool |-> FALSE]>>, <<"error_code", Num(503)>> >>))
      [] body = Str("{\"error_code\":99999}") ->
            Parsed(Obj(<< <<"error_code", Num(99999)>> >>))
      [] OTHER -> [ok |-> FALSE, value |-> Undefined]

\* The handler once the transport reported no failure.
AfterTransport(callback, body, made) ==
    IF ~JSON_parse(body).ok
    THEN Did(made \o <<Callback(Error("Could not understand response from server: "
                                          \o ToStr(body)), Null)>>, TRUE, FALSE)
    ELSE LET data == JSON_parse(body).value
         IN IF data \in {Null, Undefined}
            THEN Did(made, TRUE, TRUE)
            ELSE LET error_code == IF IsObj(data) THEN Get(data, "error_code")
                                   ELSE Undefined
                 IN IF Truthy(error_code)
                    THEN Did(made \o <<Callback(error_code_meaning(error_code), Null)>>,
                             TRUE, FALSE)
                    ELSE Did(made \o <<Callback(Null, data)>>, TRUE, FALSE)

\* Mutant of handler: no return after the transport failure is reported.
handler_NoReturn(callback, error, body) ==
    IF callback # "function" THEN Did(<<>>, FALSE, FALSE)
    ELSE IF Truthy(error)
    THEN AfterTransport(callback, body,
            <<Callback(Error("Error in server response: " \o JSON_stringify(error)),
                       Null)>>)
    ELSE AfterTransport(callback, body, <<>>)

\* Mutant of handler: the parse failure is reported without the body.
handler_NoBody(callback, error, body) ==
    IF callback # "function" THEN Did(<<>>, FALSE, FALSE)
    ELSE IF Truthy(error)
    THEN Did(<<Callback(Error("Error in server response: " \o JSON_stringify(error)),
                        Null)>>, FALSE, FALSE)
    ELSE IF ~JSON_parse(body).ok
    THEN Did(<<Callback(Error("Could not understand response from server"), Null)>>,
             TRUE, FALSE)
    ELSE AfterTransport(callback, body, <<>>)

\* Mutant of handler: any error_code that is present is an error.
handler_AnyErrorCode(callback, error, body) ==
    IF callback # "function" THEN Did(<<>>, FALSE, FALSE)
    ELSE IF Truthy(error)
    THEN Did(<<Callback(Error("Error in server response: " \o JSON_stringify(error)),
                        Null)>>, FALSE, FALSE)
    ELSE IF JSON_parse(body).ok /\ IsObj(JSON_parse(body).value)
            /\ HasOwn(JSON_parse(body).value, "error_code")
    THEN Did(<<Callback(error_code_meaning(Get(JSON_parse(body).value, "error_code")),
                        Null)>>, TRUE, FALSE)
    ELSE AfterTransport(callback, body, <<>>)

\* The function passed to request(options, ...), run with the transport's
\* error and body.
handler(callback, error, body) ==
    IF callback # "function" THEN Did(<<>>, FALSE, FALSE)
    ELSE IF Truthy(error)
    THEN Did(<<Callback(Error("Error in server response: " \o JSON_stringify(error)),
                        Null)>>, FALSE, FALSE)
    ELSE IF ~JSON_parse(body).ok
    THEN Did(<<Callback(Error("Could not understand response from server: "
                                  \o ToStr(body)), Null)>>, TRUE, FALSE)
    ELSE LET data == JSON_parse(body).value
         IN IF data \in {Null, Undefined}
            THEN Did(<<>>, TRUE, TRUE)   \* TypeError: data.error_code of null
            ELSE LET error_code == IF IsObj(data) THEN Get(data, "error_code")
                                   ELSE Undefined
                 IN IF Truthy(error_code)
                    THEN Did(<<Callback(error_code_meaning(error_code), Null)>>,
                             TRUE, FALSE)
                    ELSE Did(<<Callback(Null, data)>>, TRUE, FALSE)

\* The transport completes the request at position i of those in flight,
\* with a failure (error not null) or a response body, and runs its handler.
Respond(i, error, body) ==
    /\ i \in 1..Len(inflight)
    /\ delivered' = [ran |-> TRUE, call |-> inflight[i], pos |-> i,
                     error |-> error, body |-> body,
                     did |-> handler(inflight[i].req.callback, error, body)]
    /\ inflight' = [j \in 1..(Len(inflight) - 1) |->
                       IF j < i THEN inflight[j] ELSE inflight[j + 1]]
    /\ UNCHANGED <<heap, clients, obj, formatted>>



Init ==
    /\ heap = <<>>
    /\ clients = <<>>
    /\ inflight = <<>>
    /\ delivered = NoDelivery
    /\ obj = Obj(<<>>)
    /\ formatted = NotFormatted

(***************************************************************************)
(* Inputs of the model.                                                    *)
(***************************************************************************)
Credentials == {<<Str("k1"), Str("s1")>>, <<Str("k2"), Str("s2")>>}
SettingsLiterals ==
    {[EmptyProps EXCEPT !.url = Str("https://www.okcoin.com/api"), !.version = Str("v2")]}
Callbacks == {"function", "undefined"}
TransportFailure == Obj(<< <<"code", Str("ECONNREFUSED")>> >>)
Bodies ==
    {Undefined, Str(""), Str("<html>502 Bad Gateway</html>"), Str("null"), Str("5"),
     Str("\"ok\""), Str("[]"), Str("{}"), Str("{\"result\":true}"),
     Str("{\"error_code\":0}"), Str("{\"error_code\":\"\"}"),
     Str("{\"error_code\":10007}"), Str("{\"error_code\":\"10007\"}"),
     Str("{\"result\":false,\"error_code\":503}"), Str("{\"error_code\":99999}")}
\* The transport gives a failure or a body text; a failure may come with any body.
Responses ==
    ({TransportFailure} \X Bodies) \cup ({Null} \X (Bodies \ {Undefined}))

RequestResponses ==
    {<<TransportFailure, Undefined>>, <<Null, Str("{\"result\":true}")>>,
     <<Null, Str("{\"error_code\":10007}")>>}

Prices == {Undefined, Num(0), Num(100)}
Amounts == {Null, Num(1)}
OrderIds == {Arr(<<Num(1), Num(2)>>), Str("1,2")}

(***************************************************************************)
(* Clients built with and without settings objects, which the caller may   *)
(* reuse and write, and their calls.                                       *)
(***************************************************************************)
Next ==
    \/ \E props \in SettingsLiterals : NewSettings(props)
    \/ \E o \in 1..Len(heap), cr \in Credentials : SetSetting(o, "api_key", cr[1])
    \/ \E o \in 1..Len(heap), cr \in Credentials : SetSetting(o, "secret", cr[2])
    \/ \E cr \in Credentials, settings \in 0..Len(heap) : OKCoin(cr[1], cr[2], settings)
    \/ \E c \in 1..Len(clients) : Ticker(c, "function")
    \/ \E c \in 1..Len(clients) : Userinfo(c, "function")
    \/ \E c \in 1..Len(clients) :
          Trade(c, Str("btc_cny"), Str("buy"), Num(100), Num(1), "function")
    \/ \E i \in 1..Len(inflight) : Respond(i, Null, Str("{\"result\":true}"))

Spec == Init /\ [][Next]_vars

(***************************************************************************)
(* One client and the calls of every endpoint, completing in any order.    *)
(***************************************************************************)
NextRequest ==
    \/ \E cr \in Credentials : clients = <<>> /\ OKCoin(cr[1], cr[2], 0)
    \/ \E c \in 1..Len(clients) : Ticker(c, "function")
    \/ \E c \in 1..Len(clients) : Depth(c, "function")
    \/ \E c \in 1..Len(clients) : Trades(c, "function")
    \/ \E c \in 1..Len(clients) : Userinfo(c, "function")
    \/ \E c \in 1..Len(clients), price \in Prices, amount \in Amounts :
          Trade(c, Str("btc_cny"), Str("buy"), price, amount, "function")
    \/ \E c \in 1..Len(clients) : CancelOrder(c, Num(7), Str("btc_cny"), "function")
    \/ \E c \in 1..Len(clients) : OrderInfo(c, Num(7), Str("btc_cny"), "function")
    \/ \E c \in 1..Len(clients), ids \in OrderIds :
          OrdersInfo(c, ids, Str("btc_cny"), "function")
    \/ \E c \in 1..Len(clients) :
          OrderHistory(c, Str("btc_cny"), Num(0), Num(1), Num(10), "function")
    \/ \E i \in 1..Len(inflight), r \in RequestResponses : Respond(i, r[1], r[2])

SpecRequest == Init /\ [][NextRequest]_vars

(***************************************************************************)
(* One client, every response of the transport.                            *)
(***************************************************************************)
NextResponse ==
    \/ \E cr \in Credentials : clients = <<>> /\ OKCoin(cr[1], cr[2], 0)
    \/ \E c \in 1..Len(clients), callback \in Callbacks : Ticker(c, callback)
    \/ \E c \in 1..Len(clients) : Userinfo(c, "function")
    \/ \E i \in 1..Len(inflight), r \in Responses : Respond(i, r[1], r[2])

SpecResponse == Init /\ [][NextResponse]_vars

(***************************************************************************)
(* The canonicalizer on the parameter objects built key by key.            *)
(***************************************************************************)
NextCanon ==
    \/ \E k \in CanonKeys, v \in CanonValues : SetParam(k, v)
    \/ Stringify
    \/ NewParams

SpecCanon == Init /\ [][NextCanon]_vars

(***************************************************************************)
(* Properties.                                                             *)
(***************************************************************************)
\* The handler of a call that was given a callback function has just run.
Handled == delivered.ran /\ delivered.call.req.callback = "function"

IsError(e) == DOMAIN e = {"name", "message"}
IsApiError(e) == DOMAIN e = {"code", "error"}

\* o without its property k.
Without(o, k) == Obj(SelectSeq(o.obj, LAMBDA pr : pr[1] # k))
KeySet(o) == {o.obj[i][1] : i \in 1..Len(o.obj)}

\* The signature 4.2 defines for the parameters o under a secret.
SignatureOf(o, secret) ==
    [hex |-> "upper", of |-> stringifyToOKCoinFormat(o) \o "&secret_key=" \o ToStr(secret)]

\* C1: once the transport completes a call that has a callback, the handler
\* calls it exactly once, with a non-null error and null data or with a null
\* error and the parsed payload, and no exception leaves the handler.
C1_ExactlyOneOutcome ==
    Handled =>
        /\ ~delivered.did.threw
        /\ Len(delivered.did.calls) = 1
        /\ LET cb == delivered.did.calls[1]
           IN \/ cb.err # Null /\ cb.data = Null
              \/ cb.err = Null /\ JSON_parse(delivered.body).ok
                    /\ cb.data = JSON_parse(delivered.body).value

\* The payload of the response just handled is an object whose error_code
\* is set and is not in the catalog.
UnknownCodeHandled ==
    /\ Handled
    /\ delivered.error = Null
    /\ JSON_parse(delivered.body).ok
    /\ IsObj(JSON_parse(delivered.body).value)
    /\ LET code == Get(JSON_parse(delivered.body).value, "error_code")
       IN /\ code \notin {Undefined, Null, Num(0), Str("")}
          /\ \A i \in 1..Len(error_codes) : error_codes[i][1] # ToStr(code)

\* C2: a response carrying an error_code that is not in the catalog gives
\* the callback an error with that code and a message text.
C2_UnknownCodeHasMessage ==
    UnknownCodeHandled =>
        /\ Len(delivered.did.calls) = 1
        /\ LET cb == delivered.did.calls[1]
           IN /\ IsApiError(cb.err)
              /\ cb.err.code = Get(JSON_parse(delivered.body).value, "error_code")
              /\ IsStr(cb.err.error)
              /\ cb.err.error.str # ""

\* C3: every private request in flight carries the api_key its client was
\* constructed with and a sign computed with the secret its client was
\* constructed with.
C3_ConstructorCredentials ==
    \A i \in 1..Len(inflight) :
        inflight[i].req.method = "POST" =>
            LET form == inflight[i].req.form
                client == clients[inflight[i].client]
            IN /\ Get(form, "api_key") = client.api_key
               /\ Get(form, "sign") = SignatureOf(Without(form, "sign"), client.secret)

\* C4: the sign of every private request is the uppercase digest of the
\* canonical string of the parameters sent without sign, api_key among
\* them, followed by "&secret_key=" and the client's secret; sign is the
\* property set last.
C4_SignOverAllButSign ==
    \A i \in 1..Len(inflight) :
        inflight[i].req.method = "POST" =>
            LET form == inflight[i].req.form
            IN /\ HasOwn(form, "api_key")
               /\ form.obj[Len(form.obj)][1] = "sign"
               /\ Get(form, "sign")
                    = SignatureOf(Without(form, "sign"), Config(inflight[i].client).secret)
               /\ Get(form, "sign") # SignatureOf(form, Config(inflight[i].client).secret)

C4_Witness ==
    \E i \in 1..Len(inflight) :
        /\ inflight[i].endpoint = "trade"
        /\ KeySet(inflight[i].req.form) = {"amount", "price", "symbol", "type", "api_key", "sign"}

\* An optional argument was given: it is not absent, null, zero or empty.
Given(v) == v \notin {Undefined, Null, Num(0), Str("")}

\* The parameters a call of an endpoint sends, from the arguments it was given.
OwnParams(call) ==
    LET a == call.args
    IN CASE call.endpoint = "userinfo" -> {}
         [] call.endpoint = "trade" ->
              {<<"symbol", a[1]>>, <<"type", a[2]>>}
                \cup (IF Given(a[3]) THEN {<<"price", a[3]>>} ELSE {})
                \cup (IF Given(a[4]) THEN {<<"amount", a[4]>>} ELSE {})
         [] call.endpoint \in {"cancel_order", "order_info"} ->
              {<<"order_id", a[1]>>, <<"symbol", a[2]>>}
         [] call.endpoint = "orders_info" ->
              {<<"order_id",
                 IF IsArr(a[1])
                 THEN Str(JoinStrings([j \in 1..Len(a[1].arr) |-> ToStr(a[1].arr[j])], ","))
                 ELSE a[1]>>,
               <<"symbol", a[2]>>}
         [] call.endpoint = "order_history" ->
              {<<"symbol", a[1]>>, <<"status", a[2]>>, <<"current_page", a[3]>>,
               <<"page_length", a[4]>>}

\* The request of a call holds that call's own arguments, api_key and sign.
OwnRequest(call) ==
    IF call.endpoint \in {"ticker", "depth", "trades"}
    THEN call.req.form = Null
    ELSE LET form == call.req.form
         IN /\ {form.obj[i] : i \in 1..Len(form.obj)}
                 = OwnParams(call)
                     \cup {<<"api_key", Get(form, "api_key")>>, <<"sign", Get(form, "sign")>>}
            /\ Len(form.obj) = Cardinality(OwnParams(call)) + 2

\* The outcome handed to the callback comes from the response given to the
\* same handler run.
OwnOutcome ==
    Handled /\ delivered.did.calls # <<>> =>
        LET cb == delivered.did.calls[1]
        IN IF delivered.error # Null
           THEN cb.err = Error("Error in server response: "
                                   \o JSON_stringify(delivered.error))
           ELSE \/ cb.err = Error("Could not understand response from server: "
                                      \o ToStr(delivered.body))
                \/ /\ IsApiError(cb.err)
                   /\ cb.err.code = Get(JSON_parse(delivered.body).value, "error_code")
                \/ /\ cb.err = Null
                   /\ cb.data = JSON_parse(delivered.body).value

RemoveAt(seq, i) ==
    [j \in 1..(Len(seq) - 1) |-> IF j < i THEN seq[j] ELSE seq[j + 1]]

\* A step issues one call and leaves those in flight as they are, or
\* completes one call, runs the handler on that call and leaves the others
\* as they are, or touches no call.
IndependentStep ==
    \/ inflight' = inflight
    \/ /\ Len(inflight') = Len(inflight) + 1
       /\ SubSeq(inflight', 1, Len(inflight)) = inflight
    \/ \E i \in 1..Len(inflight) :
          /\ inflight' = RemoveAt(inflight, i)
          /\ delivered'.ran
          /\ delivered'.call = inflight[i]

\* C5: with any calls in flight and any order of completion, each request
\* holds only its own call's arguments, api_key and sign, each callback gets
\* the outcome of its own call's response, and issuing or completing a call
\* changes no other call.
C5_CallsIndependent ==
    /\ [](\A i \in 1..Len(inflight) : OwnRequest(inflight[i]))
    /\ [](delivered.ran => OwnRequest(delivered.call))
    /\ []OwnOutcome
    /\ [][IndependentStep]_vars

\* A call completed while a call issued before it, of another endpoint, is
\* still in flight.
C5_Witness ==
    /\ Handled
    /\ delivered.pos = 2
    /\ Len(inflight) = 1
    /\ inflight[1].endpoint = "trade"
    /\ delivered.call.endpoint = "order_history"
    /\ delivered.did.calls # <<>>

\* C6: when the transport reports a failure, whatever the body, the callback
\* is called once with an Error that wraps the failure and with null data,
\* and the body is not parsed.
C6_TransportError ==
    Handled /\ delivered.error # Null =>
        /\ Len(delivered.did.calls) = 1
        /\ IsError(delivered.did.calls[1].err)
        /\ delivered.did.calls[1].err.message
              = "Error in server response: {\"code\":\"ECONNREFUSED\"}"
        /\ delivered.did.calls[1].data = Null
        /\ ~delivered.did.parsed
        /\ ~delivered.did.threw

C6_Witness ==
    /\ Handled
    /\ delivered.error = TransportFailure
    /\ delivered.body = Str("{\"error_code\":10007}")

\* The bodies of the model that are not JSON texts.
NotJson == {Str(""), Str("<html>502 Bad Gateway</html>")}

\* C7: when the transport succeeds and the body is not JSON, the callback is
\* called once with an Error whose message ends with the raw body, and with
\* null data.
C7_ParseError ==
    Handled /\ delivered.error = Null /\ delivered.body \in NotJson =>
        /\ Len(delivered.did.calls) = 1
        /\ IsError(delivered.did.calls[1].err)
        /\ delivered.did.calls[1].err.message
              = "Could not understand response from server: " \o delivered.body.str
        /\ delivered.did.calls[1].data = Null
        /\ ~delivered.did.threw

C7_Witness ==
    /\ Handled
    /\ delivered.error = Null
    /\ delivered.body = Str("<html>502 Bad Gateway</html>")

\* The message the catalog has for a code, "" if it has none.
CatalogMessage(code) ==
    IF \E i \in 1..Len(error_codes) : error_codes[i][1] = ToStr(code)
    THEN error_codes[CHOOSE i \in 1..Len(error_codes) : error_codes[i][1] = ToStr(code)][2]
    ELSE ""

\* C8: for a parsed object payload the callback is called once: with an
\* error carrying the code and null data exactly when error_code is present
\* and neither zero nor empty, the error being {code, error: catalog message}
\* for a code of the catalog (10007: "Signatures do not match"); otherwise
\* with a null error and the whole payload.
C8_ApiErrorOrSuccess ==
    Handled /\ delivered.error = Null /\ JSON_parse(delivered.body).ok
            /\ IsObj(JSON_parse(delivered.body).value) =>
        LET data == JSON_parse(delivered.body).value
            code == Get(data, "error_code")
            cb == delivered.did.calls[1]
        IN /\ Len(delivered.did.calls) = 1
           /\ ~delivered.did.threw
           /\ IF HasOwn(data, "error_code") /\ code \notin {Num(0), Str("")}
              THEN /\ IsApiError(cb.err)
                   /\ cb.err.code = code
                   /\ cb.data = Null
                   /\ CatalogMessage(code) # "" => cb.err.error = Str(CatalogMessage(code))
                   /\ code = Num(10007) =>
                        cb.err = [code |-> Num(10007),
                                  error |-> Str("Signatures do not match")]
              ELSE /\ cb.err = Null
                   /\ cb.data = data

C8_Witness ==
    /\ Handled
    /\ delivered.error = Null
    /\ delivered.body = Str("{\"error_code\":10007}")
    /\ delivered.did.calls
          = <<[err |-> [code |-> Num(10007), error |-> Str("Signatures do not match")],
               data |-> Null]>>

\* C9: the request of trade(symbol, type, price, amount) has amount exactly
\* when amount is truthy and price exactly when price is truthy, each with
\* the value given, always has symbol and type, and its sign is the
\* signature of those parameters and api_key.
C9_TradeOmitsFalsy ==
    \A i \in 1..Len(inflight) :
        inflight[i].endpoint = "trade" =>
            LET form == inflight[i].req.form
                a == inflight[i].args
            IN /\ HasOwn(form, "amount") <=> Truthy(a[4])
               /\ HasOwn(form, "price") <=> Truthy(a[3])
               /\ HasOwn(form, "amount") => Get(form, "amount") = a[4]
               /\ HasOwn(form, "price") => Get(form, "price") = a[3]
               /\ HasOwn(form, "symbol") /\ Get(form, "symbol") = a[1]
               /\ HasOwn(form, "type") /\ Get(form, "type") = a[2]
               /\ Get(form, "sign").of
                    = stringifyToOKCoinFormat(
                          Obj((IF Truthy(a[4]) THEN << <<"amount", a[4]>> >> ELSE <<>>)
                              \o << <<"api_key", Get(form, "api_key")>> >>
                              \o (IF Truthy(a[3]) THEN << <<"price", a[3]>> >> ELSE <<>>)
                              \o << <<"symbol", a[1]>>, <<"type", a[2]>> >>))
                        \o "&secret_key=" \o ToStr(clients[inflight[i].client].secret)

C9_Witness ==
    \E i \in 1..Len(inflight) :
        /\ inflight[i].endpoint = "trade"
        /\ inflight[i].args[3] = Num(100)
        /\ inflight[i].args[4] = Null
        /\ KeySet(inflight[i].req.form) = {"price", "symbol", "type", "api_key", "sign"}

\* The key=value pairs of o in ascending key order, joined by "&": the least
\* key of those left, then the rest.
RECURSIVE CanonicalOf(_, _)
CanonicalOf(o, left) ==
    IF left = {} THEN ""
    ELSE LET least == CHOOSE k \in left :
                         \A j \in left \ {k} : CodesLess(Codes(k), Codes(j))
         IN least \o "=" \o ToStr(Get(o, least))
               \o (IF left = {least} THEN "" ELSE "&")
               \o CanonicalOf(o, left \ {least})

InsertionOrders(n) ==
    {f \in [1..n -> 1..n] : \A i, j \in 1..n : f[i] = f[j] => i = j}

\* C10: the string stringifyToOKCoinFormat returns is the key=value pairs in
\* ascending key order joined by "&" with no separator before or after, ""
\* for no pairs, and the same for every insertion order of the same pairs.
C10_CanonicalString ==
    formatted.done =>
        /\ formatted.out = CanonicalOf(formatted.input, KeySet(formatted.input))
        /\ formatted.input = Obj(<<>>) => formatted.out = ""
        /\ \A f \in InsertionOrders(Len(formatted.input.obj)) :
              stringifyToOKCoinFormat(
                  Obj([i \in 1..Len(formatted.input.obj) |-> formatted.input.obj[f[i]]]))
                = formatted.out

\* Three pairs set in descending key order have been formatted.
C10_Witness ==
    /\ formatted.done
    /\ Keys(formatted.input) = <<"type", "price", "Type">>
    /\ formatted.out = "Type=100&price=null&type=btc_cny"

====
